---------------------------- MODULE Spec2Model ----------------------------
(***************************************************************************)
(* A model of the BlockchainBuddy tool functions (src/app.py) as a state   *)
(* machine: each tool call is one action that records the call and the     *)
(* envelope the function returns.                                          *)
(*                                                                         *)
(* Python strings are modelled as sequences of one-character strings, so   *)
(* that str.lower(), str.strip() and re.match() are computed character by  *)
(* character.  Python dicts are modelled as sequences of <<key, value>>    *)
(* entries in insertion order, so that list(d.keys()) is the key sequence. *)
(***************************************************************************)
EXTENDS Integers, Sequences, FiniteSets, TLC

VARIABLES
    call,      \* the last tool invocation: [tool |-> ..., and its arguments]
    result,    \* the envelope that invocation returned
    prev,      \* the conversion whose output the last call converted back
    tasks,     \* the tool calls in flight at once: the line each has reached
    locals,    \* the local variables of each call's frame
    requests,  \* the /chat and /session requests in flight
    session_service,  \* the sessions the agent runtime's session service holds
    uuids      \* how many uuids have been generated

vars == <<call, result, prev, tasks, locals, requests, session_service, uuids>>

\* the variables of the calls in flight, and of the chat endpoints
frameVars == <<tasks, locals>>

chatVars == <<requests, session_service, uuids>>

(***************************************************************************)
(* Bounds of the explored inputs.                                          *)
(***************************************************************************)
\* longest run of whitespace put before / after a key argument
MaxPad == 1
\* how many letters of a key argument are upper-cased at once (besides all)
MaxUpper == 1

(***************************************************************************)
(* Python str: lower(), strip()                                            *)
(***************************************************************************)
LowerAlpha == <<"a", "b", "c", "d", "e", "f", "g", "h", "i", "j", "k", "l", "m",
                "n", "o", "p", "q", "r", "s", "t", "u", "v", "w", "x", "y", "z">>

UpperAlpha == <<"A", "B", "C", "D", "E", "F", "G", "H", "I", "J", "K", "L", "M",
                "N", "O", "P", "Q", "R", "S", "T", "U", "V", "W", "X", "Y", "Z">>

Digits == {"0", "1", "2", "3", "4", "5", "6", "7", "8", "9"}

\* the whitespace characters of the explored inputs (str.strip() removes all
\* of them; it removes further Unicode whitespace the inputs do not use)
Whitespace == {" ", "\t", "\n"}

LowerChar(c) ==
    IF \E i \in 1..26 : UpperAlpha[i] = c
    THEN LowerAlpha[CHOOSE i \in 1..26 : UpperAlpha[i] = c]
    ELSE c

UpperChar(c) ==
    IF \E i \in 1..26 : LowerAlpha[i] = c
    THEN UpperAlpha[CHOOSE i \in 1..26 : LowerAlpha[i] = c]
    ELSE c

\* s.lower()
lower(s) == [i \in 1..Len(s) |-> LowerChar(s[i])]

SetMin(S) == CHOOSE x \in S : \A y \in S : x <= y

SetMax(S) == CHOOSE x \in S : \A y \in S : x >= y

\* s.strip(): s without its leading and trailing whitespace
strip(s) ==
    LET keep == {i \in 1..Len(s) : s[i] \notin Whitespace}
    IN  IF keep = {} THEN <<>> ELSE SubSeq(s, SetMin(keep), SetMax(keep))

(***************************************************************************)
(* Python dict: key in d, d[key], list(d.keys())                           *)
(***************************************************************************)
DictHas(d, k) == \E i \in 1..Len(d) : d[i][1] = k

DictGet(d, k) == d[CHOOSE i \in 1..Len(d) : d[i][1] = k][2]

DictKeys(d) == [i \in 1..Len(d) |-> d[i][1]]

(***************************************************************************)
(* The key strings of the tables, and some strings that are no key.        *)
(***************************************************************************)
K_ethereum == <<"e", "t", "h", "e", "r", "e", "u", "m">>
K_bitcoin == <<"b", "i", "t", "c", "o", "i", "n">>
K_solana == <<"s", "o", "l", "a", "n", "a">>
K_polygon == <<"p", "o", "l", "y", "g", "o", "n">>
K_avalanche == <<"a", "v", "a", "l", "a", "n", "c", "h", "e">>
K_cardano == <<"c", "a", "r", "d", "a", "n", "o">>
K_dogecoin == <<"d", "o", "g", "e", "c", "o", "i", "n">>
K_binance == <<"b", "i", "n", "a", "n", "c", "e">>
K_erc20 == <<"e", "r", "c", "2", "0">>
K_erc721 == <<"e", "r", "c", "7", "2", "1">>
K_simple_storage == <<"s", "i", "m", "p", "l", "e", "_", "s", "t", "o", "r", "a", "g", "e">>
K_erc1155 == <<"e", "r", "c", "1", "1", "5", "5">>
K_wei == <<"w", "e", "i">>
K_gwei == <<"g", "w", "e", "i">>
K_eth == <<"e", "t", "h">>
K_ether == <<"e", "t", "h", "e", "r">>
K_satoshi == <<"s", "a", "t", "o", "s", "h", "i">>
K_sat == <<"s", "a", "t">>
K_btc == <<"b", "t", "c">>
K_lamport == <<"l", "a", "m", "p", "o", "r", "t">>
K_lamports == <<"l", "a", "m", "p", "o", "r", "t", "s">>
K_sol == <<"s", "o", "l">>
K_doge == <<"d", "o", "g", "e">>
\* a key with whitespace inside it, which strip() must leave alone
K_sol_ana == <<"s", "o", "l", " ", "a", "n", "a">>

(***************************************************************************)
(* The explored key arguments: a word, some of its letters upper-cased,    *)
(* with whitespace before and after it.                                    *)
(***************************************************************************)
Pads == UNION {[1..n -> Whitespace] : n \in 0..MaxPad}

UpperAt(w, S) == [i \in 1..Len(w) |-> IF i \in S THEN UpperChar(w[i]) ELSE w[i]]

CaseVariants(w) ==
    {UpperAt(w, S) : S \in {T \in SUBSET (1..Len(w)) : Cardinality(T) <= MaxUpper}
                           \cup {1..Len(w)}}

KeyInputs(words) ==
    {l \o v \o r : l \in Pads, r \in Pads, v \in UNION {CaseVariants(w) : w \in words}}

(***************************************************************************)
(* get_blockchain_info                                                     *)
(***************************************************************************)
blockchain_data == <<
    <<K_ethereum, [name |-> "Ethereum", symbol |-> "ETH",
        consensus |-> "Proof of Stake (PoS)", avg_block_time |-> "~12 seconds",
        smart_contracts |-> TRUE, launched |-> "2015", founder |-> "Vitalik Buterin",
        website |-> "https://ethereum.org",
        description |-> "A decentralized platform for building dApps and smart contracts."]>>,
    <<K_bitcoin, [name |-> "Bitcoin", symbol |-> "BTC",
        consensus |-> "Proof of Work (PoW)", avg_block_time |-> "~10 minutes",
        smart_contracts |-> FALSE, launched |-> "2009", founder |-> "Satoshi Nakamoto",
        website |-> "https://bitcoin.org",
        description |-> "The first and most well-known cryptocurrency."]>>,
    <<K_solana, [name |-> "Solana", symbol |-> "SOL",
        consensus |-> "Proof of History (PoH) + Proof of Stake",
        avg_block_time |-> "~400 milliseconds",
        smart_contracts |-> TRUE, launched |-> "2020", founder |-> "Anatoly Yakovenko",
        website |-> "https://solana.com",
        description |-> "A high-performance blockchain with fast transactions and low fees."]>>,
    <<K_polygon, [name |-> "Polygon", symbol |-> "MATIC",
        consensus |-> "Proof of Stake (PoS)", avg_block_time |-> "~2 seconds",
        smart_contracts |-> TRUE, launched |-> "2017",
        founder |-> "Jaynti Kanani, Sandeep Nailwal, Anurag Arjun",
        website |-> "https://polygon.technology",
        description |-> "An Ethereum Layer 2 scaling solution."]>>,
    <<K_avalanche, [name |-> "Avalanche", symbol |-> "AVAX",
        consensus |-> "Avalanche Consensus (PoS variant)", avg_block_time |-> "~2 seconds",
        smart_contracts |-> TRUE, launched |-> "2020", founder |-> "Emin Gun Sirer",
        website |-> "https://www.avax.network",
        description |-> "A highly scalable blockchain platform for dApps."]>>,
    <<K_cardano, [name |-> "Cardano", symbol |-> "ADA",
        consensus |-> "Ouroboros Proof of Stake", avg_block_time |-> "~20 seconds",
        smart_contracts |-> TRUE, launched |-> "2017", founder |-> "Charles Hoskinson",
        website |-> "https://cardano.org",
        description |-> "A research-driven blockchain focused on security."]>> >>

\* get_blockchain_info without the strip()
get_blockchain_info_untrimmed(chain_name) ==
    LET chain_key == lower(chain_name)
    IN  IF DictHas(blockchain_data, chain_key)
        THEN [status |-> "success", data |-> DictGet(blockchain_data, chain_key)]
        ELSE [status |-> "not_found",
              message |-> <<"Blockchain '", chain_name, "' not found.">>,
              available_chains |-> DictKeys(blockchain_data)]

get_blockchain_info(chain_name) ==
    LET chain_key == strip(lower(chain_name))
    IN  IF DictHas(blockchain_data, chain_key)
        THEN [status |-> "success", data |-> DictGet(blockchain_data, chain_key)]
        ELSE [status |-> "not_found",
              message |-> <<"Blockchain '", chain_name, "' not found.">>,
              available_chains |-> DictKeys(blockchain_data)]

\* the chain_name arguments explored
ChainNameInputs ==
    KeyInputs({K_ethereum, K_bitcoin, K_solana, K_polygon, K_avalanche, K_cardano,
               K_dogecoin, K_binance, K_sol_ana, <<>>})

\* no tool call is being served
Idle == call.tool = "none"

\* GET /tools/blockchain/{chain_name}, or the agent calling the tool
GetBlockchainInfo ==
    /\ Idle
    /\ \E chain_name \in ChainNameInputs :
        /\ call' = [tool |-> "get_blockchain_info", chain_name |-> chain_name]
        /\ result' = get_blockchain_info(chain_name)
        /\ prev' = [status |-> "none"]
        /\ UNCHANGED <<frameVars, chatVars>>

(***************************************************************************)
(* Python re.match(pattern, string) for the patterns of the validators,    *)
(* which all have the shape  ^(alt1|alt2|...)[class]{lo,hi}$               *)
(***************************************************************************)
\* the characters seq[i] from character a to character b of an alphabet
CharRange(alphabet, a, b) ==
    LET idx(c) == CHOOSE i \in 1..Len(alphabet) : alphabet[i] = c
    IN  {alphabet[i] : i \in idx(a)..idx(b)}

DigitSeq == <<"0", "1", "2", "3", "4", "5", "6", "7", "8", "9">>

IsPrefix(p, s) == Len(p) <= Len(s) /\ SubSeq(s, 1, Len(p)) = p

\* "$" (without re.MULTILINE) matches at the end of the string and also just
\* before a newline that is the last character of the string
DollarAt(s, pos) ==
    \/ pos = Len(s) + 1
    \/ pos = Len(s) /\ s[pos] = "\n"

\* bool(re.match(pattern, s)): some alternative, then some count in lo..hi
\* of class characters, then "$"
re_match(pattern, s) ==
    \E alt \in pattern.alts : \E n \in pattern.lo..pattern.hi :
        /\ IsPrefix(alt, s)
        /\ Len(alt) + n <= Len(s)
        /\ \A i \in (Len(alt) + 1)..(Len(alt) + n) : s[i] \in pattern.class
        /\ DollarAt(s, Len(alt) + n + 1)

(***************************************************************************)
(* validate_wallet_address                                                 *)
(***************************************************************************)
\* r"^0x[a-fA-F0-9]{40}$"
ethereum_pattern ==
    [alts |-> {<<"0", "x">>},
     class |-> CharRange(LowerAlpha, "a", "f") \cup CharRange(UpperAlpha, "A", "F")
               \cup CharRange(DigitSeq, "0", "9"),
     lo |-> 40, hi |-> 40]

\* bitcoin_pattern with a class that keeps the capitals I and O: [a-zA-Z0-9]
bitcoin_pattern_all_capitals ==
    [alts |-> {<<"1">>, <<"3">>, <<"b", "c", "1">>},
     class |-> CharRange(LowerAlpha, "a", "z") \cup CharRange(UpperAlpha, "A", "Z")
               \cup CharRange(DigitSeq, "0", "9"),
     lo |-> 25, hi |-> 62]

\* r"^(1|3|bc1)[a-zA-HJ-NP-Z0-9]{25,62}$"
bitcoin_pattern ==
    [alts |-> {<<"1">>, <<"3">>, <<"b", "c", "1">>},
     class |-> CharRange(LowerAlpha, "a", "z") \cup CharRange(UpperAlpha, "A", "H")
               \cup CharRange(UpperAlpha, "J", "N") \cup CharRange(UpperAlpha, "P", "Z")
               \cup CharRange(DigitSeq, "0", "9"),
     lo |-> 25, hi |-> 62]

\* r"^[1-9A-HJ-NP-Za-km-z]{32,44}$"
solana_pattern ==
    [alts |-> {<<>>},
     class |-> CharRange(DigitSeq, "1", "9") \cup CharRange(UpperAlpha, "A", "H")
               \cup CharRange(UpperAlpha, "J", "N") \cup CharRange(UpperAlpha, "P", "Z")
               \cup CharRange(LowerAlpha, "a", "k") \cup CharRange(LowerAlpha, "m", "z"),
     lo |-> 32, hi |-> 44]

validations == <<
    <<K_ethereum, [pattern |-> ethereum_pattern,
        description |-> "Ethereum addresses start with '0x' followed by 40 hex characters"]>>,
    <<K_bitcoin, [pattern |-> bitcoin_pattern,
        description |-> "Bitcoin addresses start with '1', '3', or 'bc1'"]>>,
    <<K_solana, [pattern |-> solana_pattern,
        description |-> "Solana addresses are base58 encoded, 32-44 characters"]>> >>

\* validate_wallet_address looking the chain up as given, not lower-cased
validate_wallet_address_as_given(address, chain) ==
    IF ~DictHas(validations, chain)
    THEN [status |-> "error",
          message |-> <<"Validation not supported for chain: ", chain>>,
          supported_chains |-> DictKeys(validations)]
    ELSE LET is_valid == re_match(DictGet(validations, chain).pattern, address)
         IN  [status |-> "success",
              address |-> address,
              chain |-> chain,
              is_valid |-> is_valid,
              format_description |-> DictGet(validations, chain).description,
              message |-> IF is_valid THEN "Address format is valid!"
                                      ELSE "Invalid address format."]

validate_wallet_address(address, chain) ==
    LET chain_lower == lower(chain)
    IN  IF ~DictHas(validations, chain_lower)
        THEN [status |-> "error",
              message |-> <<"Validation not supported for chain: ", chain>>,
              supported_chains |-> DictKeys(validations)]
        ELSE LET is_valid == re_match(DictGet(validations, chain_lower).pattern, address)
             IN  [status |-> "success",
                  address |-> address,
                  chain |-> chain,
                  is_valid |-> is_valid,
                  format_description |-> DictGet(validations, chain_lower).description,
                  message |-> IF is_valid THEN "Address format is valid!"
                                          ELSE "Invalid address format."]

\* the default of the chain parameter (of the function and of the endpoint)
validate_default_chain == K_ethereum

(***************************************************************************)
(* The explored addresses: a prefix, a run of one character in which one   *)
(* position may hold another character, and a suffix.  The run lengths lie *)
(* around the repetition counts of the three patterns.                     *)
(***************************************************************************)
\* how far the run lengths go below and above a pattern's repetition counts
MaxSlack == 1

Repeat(c, n) == [i \in 1..n |-> c]

BodyLens ==
    {0, 3} \cup {q + d : q \in {25, 32, 40, 44, 62}, d \in (0 - MaxSlack)..MaxSlack}

AddressPrefixes ==
    {<<>>, <<"0", "x">>, <<"0", "X">>, <<"1">>, <<"3">>, <<"b", "c", "1">>, <<"2">>}

OddChars == {"0", "O", "I", "l", "g", "\n", "-"}

AddressSuffixes == {<<>>, <<"\n">>, <<"\n", "\n">>, <<" ">>}

Bodies ==
    {Repeat("a", n) : n \in BodyLens}
    \cup {[Repeat("a", n) EXCEPT ![pos] = c] :
            n \in BodyLens \ {0}, c \in OddChars, pos \in {1}}
    \cup {[Repeat("a", n) EXCEPT ![n] = c] : n \in BodyLens \ {0}, c \in OddChars}

\* "0x71C7656EC7ab88b098defB751B7401B5f6d8976F"
SampleEthereumAddress ==
    <<"0", "x", "7", "1", "C", "7", "6", "5", "6", "E", "C", "7", "a", "b", "8", "8",
      "b", "0", "9", "8", "d", "e", "f", "B", "7", "5", "1", "B", "7", "4", "0", "1",
      "B", "5", "f", "6", "d", "8", "9", "7", "6", "F">>

\* "1A1zP1eP5QGefi2DMPTfTL5SLmv7DivfNa"
SampleBitcoinAddress ==
    <<"1", "A", "1", "z", "P", "1", "e", "P", "5", "Q", "G", "e", "f", "i", "2", "D",
      "M", "P", "T", "f", "T", "L", "5", "S", "L", "m", "v", "7", "D", "i", "v", "f",
      "N", "a">>

\* "bc1qar0srrr7xfkvy5l643lydnw9re59gtzzwf5mdq"
SampleBech32Address ==
    <<"b", "c", "1", "q", "a", "r", "0", "s", "r", "r", "r", "7", "x", "f", "k", "v",
      "y", "5", "l", "6", "4", "3", "l", "y", "d", "n", "w", "9", "r", "e", "5", "9",
      "g", "t", "z", "z", "w", "f", "5", "m", "d", "q">>

SampleAddresses == {SampleEthereumAddress, SampleBitcoinAddress, SampleBech32Address}

AddressInputs ==
    {p \o b \o x : p \in AddressPrefixes, b \in Bodies, x \in AddressSuffixes}
    \cup {a \o x : a \in SampleAddresses, x \in AddressSuffixes}

\* the chain arguments explored
ChainInputs == KeyInputs({K_ethereum, K_bitcoin, K_solana, K_polygon, K_dogecoin, <<>>})

\* the (address, chain) pairs explored: every address with the three chains
\* as the validator spells them, and every chain argument with the samples
ValidateInputs ==
    (AddressInputs \X {K_ethereum, K_bitcoin, K_solana})
    \cup (SampleAddresses \X ChainInputs)

\* GET /tools/validate-address?address=..&chain=.., or the agent calling the
\* tool; chain_given is FALSE when the caller leaves the chain out
ValidateWalletAddress ==
    /\ Idle
    /\ \E in \in ValidateInputs, chain_given \in BOOLEAN :
        LET chain == IF chain_given THEN in[2] ELSE validate_default_chain
        IN  /\ chain_given \/ in[2] = K_ethereum
            /\ call' = [tool |-> "validate_wallet_address", address |-> in[1],
                        chain |-> chain, chain_given |-> chain_given]
            /\ result' = validate_wallet_address(in[1], chain)
            /\ prev' = [status |-> "none"]
            /\ UNCHANGED <<frameVars, chatVars>>

(***************************************************************************)
(* Natural numbers of any size, as sequences of limbs (least significant   *)
(* first, no zero limb at the top, zero is <<>>): the products and         *)
(* quotients of 53-bit significands do not fit the integers of the checker.*)
(***************************************************************************)
LimbBits == 15

Base == 2 ^ LimbBits

Limb(x, i) == IF i <= Len(x) THEN x[i] ELSE 0

RECURSIVE BNorm(_)
BNorm(x) ==
    IF x = <<>> THEN x
    ELSE IF x[Len(x)] = 0 THEN BNorm(SubSeq(x, 1, Len(x) - 1)) ELSE x

RECURSIVE BFromInt(_)
BFromInt(n) == IF n = 0 THEN <<>> ELSE <<n % Base>> \o BFromInt(n \div Base)

RECURSIVE BAddFrom(_, _, _, _)
BAddFrom(x, y, i, carry) ==
    IF i > Len(x) /\ i > Len(y)
    THEN IF carry = 0 THEN <<>> ELSE <<carry>>
    ELSE LET sum == Limb(x, i) + Limb(y, i) + carry
         IN  <<sum % Base>> \o BAddFrom(x, y, i + 1, sum \div Base)

BAdd(x, y) == BAddFrom(x, y, 1, 0)

RECURSIVE BSubFrom(_, _, _, _)
BSubFrom(x, y, i, borrow) ==
    IF i > Len(x) THEN <<>>
    ELSE LET diff == x[i] - Limb(y, i) - borrow
         IN  IF diff < 0 THEN <<diff + Base>> \o BSubFrom(x, y, i + 1, 1)
                         ELSE <<diff>> \o BSubFrom(x, y, i + 1, 0)

\* x - y, for x >= y
BSub(x, y) == BNorm(BSubFrom(x, y, 1, 0))

BLess(x, y) ==
    IF Len(x) # Len(y) THEN Len(x) < Len(y)
    ELSE \E i \in 1..Len(x) : x[i] < y[i] /\ \A j \in (i + 1)..Len(x) : x[j] = y[j]

RECURSIVE BMulSmallFrom(_, _, _, _)
BMulSmallFrom(x, k, i, carry) ==
    IF i > Len(x)
    THEN IF carry = 0 THEN <<>> ELSE <<carry>>
    ELSE LET prod == x[i] * k + carry
         IN  <<prod % Base>> \o BMulSmallFrom(x, k, i + 1, prod \div Base)

\* x * k, for 0 <= k < Base
BMulSmall(x, k) == IF k = 0 THEN <<>> ELSE BMulSmallFrom(x, k, 1, 0)

Zeros(n) == [i \in 1..n |-> 0]

RECURSIVE BMulFrom(_, _, _)
BMulFrom(x, y, i) ==
    IF i > Len(y) THEN <<>>
    ELSE BAdd(IF BMulSmall(x, y[i]) = <<>> THEN <<>> ELSE Zeros(i - 1) \o BMulSmall(x, y[i]),
              BMulFrom(x, y, i + 1))

BMul(x, y) == BMulFrom(x, y, 1)

SmallBitLen(n) == CHOOSE k \in 1..LimbBits : 2 ^ (k - 1) <= n /\ n < 2 ^ k

\* the number of bits of x (0 for 0)
BBitLen(x) == IF x = <<>> THEN 0 ELSE LimbBits * (Len(x) - 1) + SmallBitLen(x[Len(x)])

\* bit i of x, bit 0 being the least significant
BBit(x, i) == (Limb(x, (i \div LimbBits) + 1) \div (2 ^ (i % LimbBits))) % 2

\* x * 2^n
BShl(x, n) ==
    IF x = <<>> THEN <<>> ELSE Zeros(n \div LimbBits) \o BMulSmall(x, 2 ^ (n % LimbBits))

\* x \div 2^n
BShr(x, n) ==
    LET q == n \div LimbBits
        r == n % LimbBits
        y == SubSeq(x, q + 1, Len(x))
    IN  BNorm([i \in 1..Len(y) |->
                 (y[i] \div (2 ^ r)) + (Limb(y, i + 1) % (2 ^ r)) * (2 ^ (LimbBits - r))])

\* x is a multiple of 2^n
BLowZero(x, n) == BShl(BShr(x, n), n) = x

\* the largest digit q <= qhat with d * q <= r
RECURSIVE BDigit(_, _, _)
BDigit(r, d, qhat) ==
    IF BLess(r, BMulSmall(d, qhat)) THEN BDigit(r, d, qhat - 1) ELSE qhat

\* long division, limb by limb from limb i of a down, by a divisor d of n
\* limbs whose top limb is at least Base / 2: <<quotient, remainder>>.
\* The digit is estimated from the two top limbs of the running remainder
\* and lowered until it fits.
RECURSIVE BDivFrom(_, _, _, _, _)
BDivFrom(a, d, i, q, r) ==
    IF i < 1 THEN <<BNorm(q), r>>
    ELSE LET n == Len(d)
             r2 == BNorm(<<a[i]>> \o r)
             est == (Limb(r2, n + 1) * Base + Limb(r2, n)) \div d[n]
             digit == BDigit(r2, d, IF est > Base - 1 THEN Base - 1 ELSE est)
         IN  BDivFrom(a, d, i - 1, <<digit>> \o q, BSub(r2, BMulSmall(d, digit)))

\* <<a \div d, a % d>>, for d > 0: both are scaled by the power of two that
\* brings the top limb of d to at least Base / 2, which leaves the quotient
\* as it is and scales the remainder
BDivMod(a, d) ==
    LET s == LimbBits - SmallBitLen(d[Len(d)])
        qr == BDivFrom(BShl(a, s), BShl(d, s), Len(BShl(a, s)), <<>>, <<>>)
    IN  <<qr[1], BShr(qr[2], s)>>

(***************************************************************************)
(* Python float: IEEE 754 binary64 with round-to-nearest, ties-to-even.    *)
(* A finite non-zero float is (-1)^sign * m * 2^e with 0 < m < 2^53 and    *)
(* -1074 <= e <= 971, m >= 2^52 unless e = -1074 (a subnormal).            *)
(***************************************************************************)
MantBits == 53

MinExp == -1074

MaxExp == 971

NaN == [kind |-> "nan", sign |-> 0, m |-> <<>>, e |-> 0]

Inf(sign) == [kind |-> "inf", sign |-> sign, m |-> <<>>, e |-> 0]

Zero(sign) == [kind |-> "zero", sign |-> sign, m |-> <<>>, e |-> 0]

Xor(a, b) == (a + b) % 2

Max2(a, b) == IF a >= b THEN a ELSE b

\* the float nearest to (-1)^sign * (M + f) * 2^E, where 0 <= f < 1 and
\* f > 0 exactly when sticky
RoundPack(sign, M, E, sticky) ==
    IF M = <<>> THEN Zero(sign)
    ELSE LET e0 == Max2(BBitLen(M) - MantBits + E, MinExp)
             shift == e0 - E
             m0 == IF shift <= 0 THEN BShl(M, 0 - shift) ELSE BShr(M, shift)
             guard == shift > 0 /\ BBit(M, shift - 1) = 1
             rest == sticky \/ (shift > 1 /\ ~BLowZero(M, shift - 1))
             up == guard /\ (rest \/ BBit(m0, 0) = 1)
             m1 == IF up THEN BAdd(m0, <<1>>) ELSE m0
             carried == BBitLen(m1) > MantBits
             m == IF carried THEN BShr(m1, 1) ELSE m1
             e == IF carried THEN e0 + 1 ELSE e0
         IN  IF m = <<>> THEN Zero(sign)
             ELSE IF e > MaxExp THEN Inf(sign)
             ELSE [kind |-> "fin", sign |-> sign, m |-> m, e |-> e]

\* float(n) for an integer 0 <= n < 2^31
FromInt(n) == RoundPack(0, BFromInt(n), 0, FALSE)

\* -x
Neg(x) == IF x.kind = "nan" THEN x ELSE [x EXCEPT !.sign = 1 - x.sign]

\* x * y
float_mul(x, y) ==
    IF x.kind = "nan" \/ y.kind = "nan" THEN NaN
    ELSE IF x.kind = "inf" \/ y.kind = "inf"
         THEN IF x.kind = "zero" \/ y.kind = "zero" THEN NaN
              ELSE Inf(Xor(x.sign, y.sign))
    ELSE IF x.kind = "zero" \/ y.kind = "zero" THEN Zero(Xor(x.sign, y.sign))
    ELSE RoundPack(Xor(x.sign, y.sign), BMul(x.m, y.m), x.e + y.e, FALSE)

\* x / y for a finite non-zero y (the divisors of the converter are its
\* factors; Python raises ZeroDivisionError for y = 0)
float_truediv(x, y) ==
    IF x.kind = "nan" THEN NaN
    ELSE IF x.kind = "inf" THEN Inf(Xor(x.sign, y.sign))
    ELSE IF x.kind = "zero" THEN Zero(Xor(x.sign, y.sign))
    ELSE LET sx == MantBits - BBitLen(x.m)
             sy == MantBits - BBitLen(y.m)
             qr == BDivMod(BShl(x.m, sx + MantBits + 2), BShl(y.m, sy))
         IN  RoundPack(Xor(x.sign, y.sign), qr[1],
                       (x.e - sx) - (y.e - sy) - (MantBits + 2), qr[2] # <<>>)

(***************************************************************************)
(* explain_gas_fees                                                        *)
(***************************************************************************)
gas_info == <<
    <<K_ethereum, [fee_name |-> "Gas", unit |-> "Gwei (1 Gwei = 0.000000001 ETH)",
        components |-> <<"Base Fee", "Priority Fee (Tip)">>,
        explanation |->
          "Ethereum gas fees consist of Base Fee (burned) and Priority Fee (tip to validators).",
        typical_costs |-> [simple_transfer |-> "21,000 gas units",
                           token_transfer |-> "~65,000 gas units",
                           swap |-> "~150,000 gas units"]]>>,
    <<K_solana, [fee_name |-> "Transaction Fee", unit |-> "Lamports (1 SOL = 1B Lamports)",
        components |-> <<"Base Fee", "Priority Fee">>,
        explanation |-> "Solana has extremely low fees, typically a fraction of a cent.",
        typical_costs |-> [simple_transfer |-> "~0.000005 SOL",
                           token_transfer |-> "~0.00001 SOL"]]>>,
    <<K_polygon, [fee_name |-> "Gas (MATIC)", unit |-> "Gwei (paid in MATIC)",
        components |-> <<"Base Fee", "Priority Fee">>,
        explanation |-> "Polygon uses a similar gas model to Ethereum but much cheaper.",
        typical_costs |-> [simple_transfer |-> "~$0.001-0.01",
                           swap |-> "~$0.05-0.20"]]>> >>

\* explain_gas_fees answering not_found without the list of chains
explain_gas_fees_without_keys(chain) ==
    LET chain_lower == lower(chain)
    IN  IF DictHas(gas_info, chain_lower)
        THEN [status |-> "success", chain |-> chain,
              gas_info |-> DictGet(gas_info, chain_lower)]
        ELSE [status |-> "not_found",
              message |-> <<"Gas info not available for ", chain>>]

explain_gas_fees(chain) ==
    LET chain_lower == lower(chain)
    IN  IF DictHas(gas_info, chain_lower)
        THEN [status |-> "success", chain |-> chain,
              gas_info |-> DictGet(gas_info, chain_lower)]
        ELSE [status |-> "not_found",
              message |-> <<"Gas info not available for ", chain>>,
              available_chains |-> DictKeys(gas_info)]

\* GET /tools/gas-fees/{chain}, or the agent calling the tool
ExplainGasFees ==
    /\ Idle
    /\ \E chain \in ChainInputs :
        /\ call' = [tool |-> "explain_gas_fees", chain |-> chain]
        /\ result' = explain_gas_fees(chain)
        /\ prev' = [status |-> "none"]
        /\ UNCHANGED <<frameVars, chatVars>>

(***************************************************************************)
(* get_smart_contract_template                                             *)
(***************************************************************************)
\* the Solidity source of each template is abbreviated to its contract line
templates == <<
    <<K_erc20, [name |-> "ERC-20 Token", description |-> "Standard fungible token contract",
        code |-> "contract MyToken is ERC20, Ownable { ... }"]>>,
    <<K_erc721, [name |-> "ERC-721 NFT", description |-> "Standard NFT contract",
        code |-> "contract MyNFT is ERC721, ERC721URIStorage, Ownable { ... }"]>>,
    <<K_simple_storage, [name |-> "Simple Storage", description |-> "Basic learning contract",
        code |-> "contract SimpleStorage { ... }"]>> >>

get_smart_contract_template(contract_type) ==
    LET contract_key == strip(lower(contract_type))
    IN  IF DictHas(templates, contract_key)
        THEN [status |-> "success", template |-> DictGet(templates, contract_key)]
        ELSE [status |-> "not_found",
              message |-> <<"Template '", contract_type, "' not found.">>,
              available_templates |-> DictKeys(templates)]

\* the contract_type arguments explored
ContractTypeInputs == KeyInputs({K_erc20, K_erc721, K_simple_storage, K_erc1155, <<>>})

\* GET /tools/contract-template/{contract_type}, or the agent calling the tool
GetSmartContractTemplate ==
    /\ Idle
    /\ \E contract_type \in ContractTypeInputs :
        /\ call' = [tool |-> "get_smart_contract_template", contract_type |-> contract_type]
        /\ result' = get_smart_contract_template(contract_type)
        /\ prev' = [status |-> "none"]
        /\ UNCHANGED <<frameVars, chatVars>>

(***************************************************************************)
(* convert_crypto_units                                                    *)
(***************************************************************************)
\* 1.0
F_1 ==
    [kind |-> "fin", sign |-> 0, m |-> <<0, 0, 0, 128>>, e |-> -52]

\* 1e8
F_1e8 ==
    [kind |-> "fin", sign |-> 0, m |-> <<0, 0, 24080, 190>>, e |-> -26]

\* 1e9
F_1e9 ==
    [kind |-> "fin", sign |-> 0, m |-> <<0, 0, 13716, 238>>, e |-> -23]

\* 1e18
F_1e18 ==
    [kind |-> "fin", sign |-> 0, m |-> <<18432, 20125, 1461, 222>>, e |-> 7]

\* conversions with gwei at 1e8: a factor mistyped by one zero
conversions_gwei_1e8 == <<
    <<K_wei, F_1>>, <<K_gwei, F_1e8>>, <<K_eth, F_1e18>>, <<K_ether, F_1e18>>,
    <<K_satoshi, F_1>>, <<K_sat, F_1>>, <<K_btc, F_1e8>>, <<K_bitcoin, F_1e8>>,
    <<K_lamport, F_1>>, <<K_lamports, F_1>>, <<K_sol, F_1e9>>, <<K_solana, F_1e9>> >>

\* the factors 1 are Python ints, which the arithmetic converts to 1.0
conversions == <<
    <<K_wei, F_1>>, <<K_gwei, F_1e9>>, <<K_eth, F_1e18>>, <<K_ether, F_1e18>>,
    <<K_satoshi, F_1>>, <<K_sat, F_1>>, <<K_btc, F_1e8>>, <<K_bitcoin, F_1e8>>,
    <<K_lamport, F_1>>, <<K_lamports, F_1>>, <<K_sol, F_1e9>>, <<K_solana, F_1e9>> >>

eth_units == <<K_wei, K_gwei, K_eth, K_ether>>

btc_units == <<K_satoshi, K_sat, K_btc, K_bitcoin>>

sol_units == <<K_lamport, K_lamports, K_sol, K_solana>>

\* unit in a list
InList(x, list) == \E i \in 1..Len(list) : list[i] = x

\* get_chain with every unit taken for an Ethereum unit
get_chain_ethereum_only(unit) == "ethereum"

get_chain(unit) ==
    IF InList(unit, eth_units) THEN "ethereum"
    ELSE IF InList(unit, btc_units) THEN "bitcoin"
    ELSE IF InList(unit, sol_units) THEN "solana"
    ELSE "None"

\* convert_crypto_units checking the families before the units
convert_crypto_units_family_first(amount, from_unit, to_unit) ==
    LET from_lower == lower(from_unit)
        to_lower == lower(to_unit)
        from_chain == get_chain(from_lower)
        to_chain == get_chain(to_lower)
    IN  IF from_chain # to_chain
        THEN [status |-> "error",
              message |-> <<"Cannot convert between ", from_chain, " and ", to_chain>>]
        ELSE IF ~DictHas(conversions, from_lower) \/ ~DictHas(conversions, to_lower)
        THEN [status |-> "error", message |-> "Invalid unit",
              available_units |-> DictKeys(conversions)]
        ELSE [status |-> "success",
              input |-> [amount |-> amount, unit |-> from_unit],
              output |-> [amount |-> float_truediv(float_mul(amount,
                                        DictGet(conversions, from_lower)),
                                        DictGet(conversions, to_lower)),
                          unit |-> to_unit],
              blockchain |-> from_chain]

\* convert_crypto_units multiplying by the target factor instead of dividing
convert_crypto_units_multiplying(amount, from_unit, to_unit) ==
    LET from_lower == lower(from_unit)
        to_lower == lower(to_unit)
    IN  IF ~DictHas(conversions, from_lower) \/ ~DictHas(conversions, to_lower)
        THEN [status |-> "error", message |-> "Invalid unit",
              available_units |-> DictKeys(conversions)]
        ELSE IF get_chain(from_lower) # get_chain(to_lower)
        THEN [status |-> "error",
              message |-> <<"Cannot convert between ", get_chain(from_lower),
                            " and ", get_chain(to_lower)>>]
        ELSE [status |-> "success",
              input |-> [amount |-> amount, unit |-> from_unit],
              output |-> [amount |-> float_mul(float_mul(amount,
                                        DictGet(conversions, from_lower)),
                                        DictGet(conversions, to_lower)),
                          unit |-> to_unit],
              blockchain |-> get_chain(from_lower)]

convert_crypto_units(amount, from_unit, to_unit) ==
    LET from_lower == lower(from_unit)
        to_lower == lower(to_unit)
    IN  IF ~DictHas(conversions, from_lower) \/ ~DictHas(conversions, to_lower)
        THEN [status |-> "error", message |-> "Invalid unit",
              available_units |-> DictKeys(conversions)]
        ELSE LET from_chain == get_chain(from_lower)
                 to_chain == get_chain(to_lower)
             IN  IF from_chain # to_chain
                 THEN [status |-> "error",
                       message |-> <<"Cannot convert between ", from_chain,
                                     " and ", to_chain>>]
                 ELSE LET base_amount == float_mul(amount, DictGet(conversions, from_lower))
                          converted == float_truediv(base_amount,
                                                     DictGet(conversions, to_lower))
                      IN  [status |-> "success",
                           input |-> [amount |-> amount, unit |-> from_unit],
                           output |-> [amount |-> converted, unit |-> to_unit],
                           blockchain |-> from_chain]

(***************************************************************************)
(* The explored amounts (floats: the endpoint declares amount: float) and  *)
(* units.                                                                  *)
(***************************************************************************)
\* the whole amounts 0..MaxWhole are explored
MaxWhole == 3

\* 21000.0
F_21000 ==
    [kind |-> "fin", sign |-> 0, m |-> <<0, 0, 2048, 164>>, e |-> -38]

\* 0.000021
F_0_000021 ==
    [kind |-> "fin", sign |-> 0, m |-> <<18377, 1501, 5268, 176>>, e |-> -68]

\* 0.1
F_0_1 ==
    [kind |-> "fin", sign |-> 0, m |-> <<6554, 13107, 26214, 204>>, e |-> -56]

\* 123456789.123
F_123456789_123 ==
    [kind |-> "fin", sign |-> 0, m |-> <<29622, 10491, 15569, 235>>, e |-> -26]

\* 1e300
F_1e300 ==
    [kind |-> "fin", sign |-> 0, m |-> <<30108, 4096, 4338, 191>>, e |-> 944]

\* 1e290
F_1e290 ==
    [kind |-> "fin", sign |-> 0, m |-> <<1631, 15604, 5946, 164>>, e |-> 911]

\* sys.float_info.max, 1.7976931348623157e308
F_max ==
    [kind |-> "fin", sign |-> 0, m |-> <<32767, 32767, 32767, 255>>, e |-> 971]

\* the smallest subnormal, 5e-324
F_min_subnormal ==
    [kind |-> "fin", sign |-> 0, m |-> <<1>>, e |-> -1074]

\* 1e-310, a subnormal
F_1e_310 ==
    [kind |-> "fin", sign |-> 0, m |-> <<26155, 5857, 18850>>, e |-> -1074]

\* sys.float_info.min, the smallest normal float, 2.2250738585072014e-308
F_min_normal ==
    [kind |-> "fin", sign |-> 0, m |-> <<0, 0, 0, 128>>, e |-> -1074]

\* 1e-300
F_1e_300 ==
    [kind |-> "fin", sign |-> 0, m |-> <<29529, 1521, 14463, 171>>, e |-> -1049]

Amounts ==
    {FromInt(n) : n \in 0..MaxWhole}
    \cup {F_21000, F_0_000021, F_0_1, F_123456789_123, F_1e300, F_1e290, F_max,
          F_min_subnormal, F_1e_310, F_min_normal, F_1e_300,
          Neg(F_1), Neg(F_0_1), Neg(F_1e300), Zero(1), Inf(0), Inf(1), NaN}

\* the units as the table spells them
KnownUnits == {conversions[i][1] : i \in 1..Len(conversions)}

\* the unit arguments explored: the units, words that are no unit (the chain
\* name "ethereum" is none), each in several cases and with whitespace around
UnitInputs == KeyInputs(KnownUnits \cup {K_doge, K_ethereum, <<>>})

\* the units and the other words, in lower case and in capitals
PlainUnitInputs ==
    LET words == KnownUnits \cup {K_doge, K_ethereum, <<>>}
    IN  words \cup {UpperAt(w, 1..Len(w)) : w \in words}

\* the (amount, from_unit, to_unit) triples explored: every amount with
\* every pair of units as the table spells them; one amount with every pair
\* of plain unit arguments, and with every unit argument on one side and a
\* unit of each family on the other
ConvertInputs ==
    (Amounts \X KnownUnits \X KnownUnits)
    \cup ({F_21000} \X PlainUnitInputs \X PlainUnitInputs)
    \cup ({F_1} \X UnitInputs \X {K_wei, K_btc, K_sol})
    \cup ({F_1} \X {K_wei, K_btc, K_sol} \X UnitInputs)

\* GET /tools/convert?amount=..&from_unit=..&to_unit=.., or the agent
\* calling the tool
ConvertCryptoUnits ==
    /\ Idle
    /\ \E in \in ConvertInputs :
        /\ call' = [tool |-> "convert_crypto_units", amount |-> in[1],
                    from_unit |-> in[2], to_unit |-> in[3]]
        /\ result' = convert_crypto_units(in[1], in[2], in[3])
        /\ prev' = [status |-> "none"]
        /\ UNCHANGED <<frameVars, chatVars>>

\* the caller converts the output amount of a successful conversion back:
\* a second call of the tool, with the units exchanged
ConvertBack ==
    /\ call.tool = "convert_crypto_units"
    /\ result.status = "success"
    /\ prev.status = "none"
    /\ call' = [tool |-> "convert_crypto_units", amount |-> result.output.amount,
                from_unit |-> call.to_unit, to_unit |-> call.from_unit]
    /\ result' = convert_crypto_units(result.output.amount, call.to_unit, call.from_unit)
    /\ prev' = [status |-> "converted", call |-> call, result |-> result]
    /\ UNCHANGED <<frameVars, chatVars>>

(***************************************************************************)
(* Calls of the tools in flight at once, executed line by line.  A call    *)
(* binds its arguments in a frame, runs the statements of the function     *)
(* body (src/app.py line numbers) against the frame's local variables and  *)
(* ends by returning an envelope or by raising.  The tables of a function  *)
(* are literals built anew in each call's frame.                           *)
(***************************************************************************)
\* how many tool calls are in flight at once
MaxTasks == 2

Tasks == 1..MaxTasks

\* every call sharing one frame, as if the locals were module globals
FrameOf_shared(t) == 1

\* the frame of a call: each call of a Python function has a frame of its
\* own for its local variables
FrameOf(t) == t

\* a frame before any local variable is bound
NoLocals ==
    [chain_key |-> <<>>, chain_lower |-> <<>>, is_valid |-> FALSE,
     contract_key |-> <<>>, from_lower |-> <<>>, to_lower |-> <<>>,
     from_chain |-> "None", to_chain |-> "None", result |-> NaN]

NoTask == [pc |-> "idle", call |-> [tool |-> "none"], out |-> [status |-> "none"]]

\* d[k]: the value, or KeyError when k is not a key of d
subscript(d, k) ==
    IF DictHas(d, k) THEN [raised |-> FALSE, value |-> DictGet(d, k)]
    ELSE [raised |-> TRUE, exception |-> "KeyError"]

\* x / y for floats: ZeroDivisionError when y is zero
truediv(x, y) ==
    IF y.kind = "zero" THEN [raised |-> TRUE, exception |-> "ZeroDivisionError"]
    ELSE [raised |-> FALSE, value |-> float_truediv(x, y)]

\* the three ways a statement ends: go on at a line, return, raise
Goto(pc, loc) == [pc |-> pc, loc |-> loc, out |-> [status |-> "none"]]

Return(loc, value) == [pc |-> "returned", loc |-> loc, out |-> value]

Raise(loc, exception) ==
    [pc |-> "raised", loc |-> loc, out |-> [status |-> "raised", exception |-> exception]]

\* get_blockchain_info, lines 92-99
exec_get_blockchain_info(pc, args, loc) ==
    IF pc = "L92"
    THEN Goto("L93", [loc EXCEPT !.chain_key = strip(lower(args.chain_name))])
    ELSE IF DictHas(blockchain_data, loc.chain_key)
         THEN LET data == subscript(blockchain_data, loc.chain_key)
              IN  IF data.raised THEN Raise(loc, data.exception)
                  ELSE Return(loc, [status |-> "success", data |-> data.value])
         ELSE Return(loc, [status |-> "not_found",
                           message |-> <<"Blockchain '", args.chain_name, "' not found.">>,
                           available_chains |-> DictKeys(blockchain_data)])

\* validate_wallet_address, lines 121-137
exec_validate_wallet_address(pc, args, loc) ==
    IF pc = "L121"
    THEN Goto("L122", [loc EXCEPT !.chain_lower = lower(args.chain)])
    ELSE IF pc = "L122"
    THEN IF ~DictHas(validations, loc.chain_lower)
         THEN Return(loc, [status |-> "error",
                           message |-> <<"Validation not supported for chain: ",
                                         args.chain>>,
                           supported_chains |-> DictKeys(validations)])
         ELSE Goto("L129", loc)
    ELSE IF pc = "L129"
    THEN LET entry == subscript(validations, loc.chain_lower)
         IN  IF entry.raised THEN Raise(loc, entry.exception)
             ELSE Goto("L130", [loc EXCEPT
                                  !.is_valid = re_match(entry.value.pattern, args.address)])
    ELSE LET entry == subscript(validations, loc.chain_lower)
         IN  IF entry.raised THEN Raise(loc, entry.exception)
             ELSE Return(loc, [status |-> "success",
                               address |-> args.address,
                               chain |-> args.chain,
                               is_valid |-> loc.is_valid,
                               format_description |-> entry.value.description,
                               message |-> IF loc.is_valid THEN "Address format is valid!"
                                                           ELSE "Invalid address format."])

\* explain_gas_fees subscripting gas_info without the membership test
exec_explain_gas_fees_unguarded(pc, args, loc) ==
    IF pc = "L176"
    THEN Goto("L177", [loc EXCEPT !.chain_lower = lower(args.chain)])
    ELSE LET info == subscript(gas_info, loc.chain_lower)
         IN  IF info.raised THEN Raise(loc, info.exception)
             ELSE Return(loc, [status |-> "success", chain |-> args.chain,
                               gas_info |-> info.value])

\* explain_gas_fees, lines 176-183
exec_explain_gas_fees(pc, args, loc) ==
    IF pc = "L176"
    THEN Goto("L177", [loc EXCEPT !.chain_lower = lower(args.chain)])
    ELSE IF DictHas(gas_info, loc.chain_lower)
         THEN LET info == subscript(gas_info, loc.chain_lower)
              IN  IF info.raised THEN Raise(loc, info.exception)
                  ELSE Return(loc, [status |-> "success", chain |-> args.chain,
                                    gas_info |-> info.value])
         ELSE Return(loc, [status |-> "not_found",
                           message |-> <<"Gas info not available for ", args.chain>>,
                           available_chains |-> DictKeys(gas_info)])

\* get_smart_contract_template, lines 257-264
exec_get_smart_contract_template(pc, args, loc) ==
    IF pc = "L257"
    THEN Goto("L258", [loc EXCEPT !.contract_key = strip(lower(args.contract_type))])
    ELSE IF DictHas(templates, loc.contract_key)
         THEN LET template == subscript(templates, loc.contract_key)
              IN  IF template.raised THEN Raise(loc, template.exception)
                  ELSE Return(loc, [status |-> "success", template |-> template.value])
         ELSE Return(loc, [status |-> "not_found",
                           message |-> <<"Template '", args.contract_type, "' not found.">>,
                           available_templates |-> DictKeys(templates)])

\* convert_crypto_units, lines 279-300
exec_convert_crypto_units(pc, args, loc) ==
    IF pc = "L279"
    THEN Goto("L281", [loc EXCEPT !.from_lower = lower(args.from_unit),
                                  !.to_lower = lower(args.to_unit)])
    ELSE IF pc = "L281"
    THEN IF ~DictHas(conversions, loc.from_lower) \/ ~DictHas(conversions, loc.to_lower)
         THEN Return(loc, [status |-> "error", message |-> "Invalid unit",
                           available_units |-> DictKeys(conversions)])
         ELSE Goto("L290", loc)
    ELSE IF pc = "L290"
    THEN Goto("L291", [loc EXCEPT !.from_chain = get_chain(loc.from_lower),
                                  !.to_chain = get_chain(loc.to_lower)])
    ELSE IF pc = "L291"
    THEN IF loc.from_chain # loc.to_chain
         THEN Return(loc, [status |-> "error",
                           message |-> <<"Cannot convert between ", loc.from_chain,
                                         " and ", loc.to_chain>>])
         ELSE Goto("L294", loc)
    ELSE IF pc = "L294"
    THEN LET from_factor == subscript(conversions, loc.from_lower)
             to_factor == subscript(conversions, loc.to_lower)
         IN  IF from_factor.raised THEN Raise(loc, from_factor.exception)
             ELSE IF to_factor.raised THEN Raise(loc, to_factor.exception)
             ELSE LET quotient == truediv(float_mul(args.amount, from_factor.value),
                                          to_factor.value)
                  IN  IF quotient.raised THEN Raise(loc, quotient.exception)
                      ELSE Goto("L295", [loc EXCEPT !.result = quotient.value])
    ELSE Return(loc, [status |-> "success",
                      input |-> [amount |-> args.amount, unit |-> args.from_unit],
                      output |-> [amount |-> loc.result, unit |-> args.to_unit],
                      blockchain |-> loc.from_chain])

\* the first statement of each function body after its table literals
FirstLine(tool) ==
    CASE tool = "get_blockchain_info" -> "L92"
      [] tool = "validate_wallet_address" -> "L121"
      [] tool = "explain_gas_fees" -> "L176"
      [] tool = "get_smart_contract_template" -> "L257"
      [] tool = "convert_crypto_units" -> "L279"

\* one statement of the call c at line pc, on the locals loc
Exec(pc, c, loc) ==
    CASE c.tool = "get_blockchain_info" -> exec_get_blockchain_info(pc, c, loc)
      [] c.tool = "validate_wallet_address" -> exec_validate_wallet_address(pc, c, loc)
      [] c.tool = "explain_gas_fees" -> exec_explain_gas_fees(pc, c, loc)
      [] c.tool = "get_smart_contract_template" ->
            exec_get_smart_contract_template(pc, c, loc)
      [] c.tool = "convert_crypto_units" -> exec_convert_crypto_units(pc, c, loc)

\* " Ethereum"
SpacedEthereum == <<" ">> \o UpperAt(K_ethereum, {1})

\* the calls explored in flight together: a hit and a miss of each tool,
\* with keys that need folding and trimming, and a conversion that overflows
ToolCalls ==
    {[tool |-> "get_blockchain_info", chain_name |-> n] :
        n \in {SpacedEthereum, K_solana, K_dogecoin}}
    \cup {[tool |-> "validate_wallet_address", address |-> SampleEthereumAddress,
           chain |-> c] : c \in {UpperAt(K_ethereum, {1}), K_bitcoin, K_dogecoin}}
    \cup {[tool |-> "explain_gas_fees", chain |-> c] :
            c \in {UpperAt(K_solana, {1}), K_bitcoin}}
    \cup {[tool |-> "get_smart_contract_template", contract_type |-> c] :
            c \in {K_erc721 \o <<" ">>, K_erc1155}}
    \cup {[tool |-> "convert_crypto_units", amount |-> in[1], from_unit |-> in[2],
           to_unit |-> in[3]] :
            in \in {<<F_0_1, UpperAt(K_eth, {1}), K_gwei>>, <<F_1e300, K_sol, K_lamports>>,
                    <<F_1, K_btc, K_wei>>, <<F_1, K_doge, K_eth>>}}

\* a request or the agent calls a tool: the arguments are bound in a new
\* frame and the call stands at the first line of the body
CallTool ==
    \E t \in Tasks, c \in ToolCalls :
        /\ tasks[t].pc = "idle"
        /\ tasks' = [tasks EXCEPT ![t] = [pc |-> FirstLine(c.tool), call |-> c,
                                          out |-> [status |-> "none"]]]
        /\ locals' = [locals EXCEPT ![FrameOf(t)] = NoLocals]
        /\ UNCHANGED <<call, result, prev, chatVars>>

\* a call in flight executes its next statement
Step ==
    \E t \in Tasks :
        /\ tasks[t].pc \notin {"idle", "returned", "raised"}
        /\ LET next == Exec(tasks[t].pc, tasks[t].call, locals[FrameOf(t)])
           IN  /\ tasks' = [tasks EXCEPT ![t].pc = next.pc, ![t].out = next.out]
               /\ locals' = [locals EXCEPT ![FrameOf(t)] = next.loc]
        /\ UNCHANGED <<call, result, prev, chatVars>>

\* the call c begins in the frame of task 1
BeginAlone(c) ==
    /\ tasks' = [tasks EXCEPT ![1] = [pc |-> FirstLine(c.tool), call |-> c,
                                      out |-> [status |-> "none"]]]
    /\ locals' = [locals EXCEPT ![FrameOf(1)] = NoLocals]
    /\ UNCHANGED <<call, result, prev, chatVars>>

\* a tool is called, on any of the explored arguments, while no other call
\* is in flight
CallToolAlone ==
    /\ \A t \in Tasks : tasks[t].pc = "idle"
    /\ \/ \E n \in ChainNameInputs :
            BeginAlone([tool |-> "get_blockchain_info", chain_name |-> n])
       \/ \E in \in ValidateInputs :
            BeginAlone([tool |-> "validate_wallet_address", address |-> in[1],
                        chain |-> in[2]])
       \/ \E c \in ChainInputs :
            BeginAlone([tool |-> "explain_gas_fees", chain |-> c])
       \/ \E c \in ContractTypeInputs :
            BeginAlone([tool |-> "get_smart_contract_template", contract_type |-> c])
       \/ \E in \in ConvertInputs :
            BeginAlone([tool |-> "convert_crypto_units", amount |-> in[1],
                        from_unit |-> in[2], to_unit |-> in[3]])

\* the caller takes the envelope (or the exception) and the frame is gone
Finish ==
    \E t \in Tasks :
        /\ tasks[t].pc \in {"returned", "raised"}
        /\ tasks' = [tasks EXCEPT ![t] = NoTask]
        /\ locals' = [locals EXCEPT ![FrameOf(t)] = NoLocals]
        /\ UNCHANGED <<call, result, prev, chatVars>>

(***************************************************************************)
(* POST /chat and DELETE /session/{session_id}.  The session service and   *)
(* the runner belong to the agent runtime: the model holds what the        *)
(* handlers ask of them.  get_session gives the stored session, or None,   *)
(* or raises; create_session stores a new, empty session under the key     *)
(* (replacing one that is there), or raises; a run appends the turn to the *)
(* session's events, or raises.  A handler runs without interruption from  *)
(* one await to the next, and other requests run in between.               *)
(***************************************************************************)
\* how many requests are received in all
MaxRequests == 2

Requests == 1..MaxRequests

APP_NAME == "blockchain_assistant"

\* "session-1", "session-2": two ids with the same first eight characters
K_session_1 == <<"s", "e", "s", "s", "i", "o", "n", "-", "1">>

K_session_2 == <<"s", "e", "s", "s", "i", "o", "n", "-", "2">>

\* the session_id fields explored; "" stands with a request without one
SessionIdInputs == {<<>>, K_session_1, K_session_2}

\* str(uuid.uuid4()), the n-th one generated: each differs from all others
\* and from the ids clients send
uuid4(n) == <<"#">> \o <<n>>

Min2(a, b) == IF a <= b THEN a ELSE b

\* f"user_{session_id[:8]}"
user_id_of(session_id) ==
    <<"u", "s", "e", "r", "_">> \o SubSeq(session_id, 1, Min2(8, Len(session_id)))

\* the key the session service files a session under
SessionKey(session_id) == <<APP_NAME, user_id_of(session_id), session_id>>

NoRequest ==
    [endpoint |-> "none", pc |-> "new", session_id_given |-> FALSE,
     request_session_id |-> <<>>, session_id |-> <<>>, session |-> "None",
     existed |-> FALSE, get_session_raised |-> FALSE,
     create_calls |-> 0, run_calls |-> 0, failure |-> "none",
     response |-> [kind |-> "none"]]

\* the apology returned in place of an empty answer
NoAnswer == "I apologize, but I couldn't generate a response. Please try again."

ChatResponse(response_text, session_id) ==
    [kind |-> "ChatResponse",
     response |-> IF response_text = "" THEN NoAnswer ELSE response_text,
     session_id |-> session_id]

\* the outer handler answering with an apology instead of the error
chat_except_apology(e) ==
    [kind |-> "ChatResponse", response |-> NoAnswer, session_id |-> <<>>]

\* except Exception as e: raise HTTPException(status_code=500, detail=...)
chat_except(e) ==
    [kind |-> "HTTPException", status_code |-> 500,
     detail |-> <<"Error processing request: ", e>>]

\* requests are numbered in the order they are received
NextRequest(r) ==
    /\ requests[r].pc = "new"
    /\ requests[r].endpoint = "none"
    /\ \A q \in Requests : q < r => requests[q].endpoint # "none"

\* no handler is between two awaits
NoneInFlight == \A r \in Requests : requests[r].pc \in {"new", "done"}

\* chat, lines 408-421: the session id is the request's or a new uuid; the
\* handler awaits get_session and takes a failure of it for "no session"
ChatGetSession ==
    \E r \in Requests, given \in BOOLEAN, sid \in SessionIdInputs, raised \in BOOLEAN :
        /\ NextRequest(r)
        /\ given \/ sid = <<>>
        /\ LET generate == ~given \/ sid = <<>>
               session_id == IF generate THEN uuid4(uuids + 1) ELSE sid
               stored == SessionKey(session_id) \in DOMAIN session_service
               session == IF ~raised /\ stored THEN "Session" ELSE "None"
           IN  /\ requests' = [requests EXCEPT ![r] =
                     [NoRequest EXCEPT !.endpoint = "chat",
                                       !.pc = IF session = "None" THEN "L424" ELSE "L431",
                                       !.session_id_given = given,
                                       !.request_session_id = sid,
                                       !.session_id = session_id,
                                       !.session = session,
                                       !.existed = stored,
                                       !.get_session_raised = raised]]
               /\ uuids' = IF generate THEN uuids + 1 ELSE uuids
        /\ UNCHANGED <<call, result, prev, frameVars, session_service>>

\* chat, lines 423-428: session is None, so the handler awaits
\* create_session; a failure goes to the outer handler
ChatCreateSession ==
    \E r \in Requests, raised \in BOOLEAN :
        /\ requests[r].pc = "L424"
        /\ IF raised
           THEN /\ requests' = [requests EXCEPT
                       ![r].pc = "done",
                       ![r].create_calls = @ + 1,
                       ![r].failure = "create_session failed",
                       ![r].response = chat_except("create_session failed")]
                /\ UNCHANGED session_service
           ELSE /\ requests' = [requests EXCEPT
                       ![r].pc = "L431",
                       ![r].create_calls = @ + 1,
                       ![r].session = "Session"]
                /\ session_service' =
                       [k \in DOMAIN session_service \cup {SessionKey(requests[r].session_id)} |->
                           IF k = SessionKey(requests[r].session_id)
                           THEN [events |-> 0, created_by |-> r]
                           ELSE session_service[k]]
        /\ UNCHANGED <<call, result, prev, frameVars, uuids>>

\* chat, lines 431-460: the runner runs the agent on the session and the
\* text of its events is the answer; a failure goes to the outer handler,
\* with the user's message already among the events or not
ChatRun ==
    \E r \in Requests, raised \in BOOLEAN, kept \in BOOLEAN, response_text \in {"", "answer"} :
        /\ requests[r].pc = "L431"
        /\ LET key == SessionKey(requests[r].session_id)
               stored == key \in DOMAIN session_service
           IN  IF raised \/ ~stored
               THEN /\ response_text = ""
                    /\ raised \/ ~kept
                    /\ requests' = [requests EXCEPT
                           ![r].pc = "done",
                           ![r].run_calls = @ + 1,
                           ![r].failure = "run_async failed",
                           ![r].response = chat_except("run_async failed")]
                    /\ session_service' =
                           IF stored /\ kept
                           THEN [session_service EXCEPT ![key].events = @ + 1]
                           ELSE session_service
               ELSE /\ ~kept
                    /\ requests' = [requests EXCEPT
                           ![r].pc = "done",
                           ![r].run_calls = @ + 1,
                           ![r].response =
                               ChatResponse(response_text, requests[r].session_id)]
                    /\ session_service' = [session_service EXCEPT ![key].events = @ + 2]
        /\ UNCHANGED <<call, result, prev, frameVars, uuids>>

\* delete_session, lines 466-469
DeleteSession ==
    \E r \in Requests, sid \in SessionIdInputs \ {<<>>} :
        /\ NextRequest(r)
        /\ requests' = [requests EXCEPT ![r] =
              [NoRequest EXCEPT !.endpoint = "delete",
                                !.pc = "done",
                                !.session_id_given = TRUE,
                                !.request_session_id = sid,
                                !.session_id = sid,
                                !.response = [kind |-> "json", status |-> "deleted",
                                              session_id |-> sid]]]
        /\ UNCHANGED <<call, result, prev, frameVars, session_service, uuids>>

(***************************************************************************)
(* The second copy of the tools, src/blockchain_assistant/agent.py, which  *)
(* root_agent is given.  Long texts are abbreviated to their first line.   *)
(***************************************************************************)
agent_blockchain_data == <<
    <<K_ethereum, [name |-> "Ethereum", symbol |-> "ETH",
        consensus |-> "Proof of Stake (PoS)", avg_block_time |-> "~12 seconds",
        smart_contracts |-> TRUE, launched |-> "2015", founder |-> "Vitalik Buterin",
        website |-> "https://ethereum.org",
        description |-> "A decentralized platform for building dApps and smart contracts."]>>,
    <<K_bitcoin, [name |-> "Bitcoin", symbol |-> "BTC",
        consensus |-> "Proof of Work (PoW)", avg_block_time |-> "~10 minutes",
        smart_contracts |-> FALSE, launched |-> "2009", founder |-> "Satoshi Nakamoto",
        website |-> "https://bitcoin.org",
        description |-> "The first and most well-known cryptocurrency, designed as a peer-to-peer electronic cash system."]>>,
    <<K_solana, [name |-> "Solana", symbol |-> "SOL",
        consensus |-> "Proof of History (PoH) + Proof of Stake",
        avg_block_time |-> "~400 milliseconds",
        smart_contracts |-> TRUE, launched |-> "2020", founder |-> "Anatoly Yakovenko",
        website |-> "https://solana.com",
        description |-> "A high-performance blockchain supporting fast transactions and low fees."]>>,
    <<K_polygon, [name |-> "Polygon", symbol |-> "MATIC",
        consensus |-> "Proof of Stake (PoS)", avg_block_time |-> "~2 seconds",
        smart_contracts |-> TRUE, launched |-> "2017",
        founder |-> "Jaynti Kanani, Sandeep Nailwal, Anurag Arjun",
        website |-> "https://polygon.technology",
        description |-> "An Ethereum Layer 2 scaling solution for faster and cheaper transactions."]>>,
    <<K_binance, [name |-> "BNB Chain (Binance Smart Chain)", symbol |-> "BNB",
        consensus |-> "Proof of Staked Authority (PoSA)", avg_block_time |-> "~3 seconds",
        smart_contracts |-> TRUE, launched |-> "2020", founder |-> "Changpeng Zhao (CZ)",
        website |-> "https://www.bnbchain.org",
        description |-> "A blockchain focusing on fast and low-cost transactions, EVM compatible."]>>,
    <<K_avalanche, [name |-> "Avalanche", symbol |-> "AVAX",
        consensus |-> "Avalanche Consensus (PoS variant)", avg_block_time |-> "~2 seconds",
        smart_contracts |-> TRUE, launched |-> "2020", founder |-> "Emin Gun Sirer",
        website |-> "https://www.avax.network",
        description |-> "A highly scalable blockchain platform for decentralized applications."]>>,
    <<K_cardano, [name |-> "Cardano", symbol |-> "ADA",
        consensus |-> "Ouroboros Proof of Stake", avg_block_time |-> "~20 seconds",
        smart_contracts |-> TRUE, launched |-> "2017", founder |-> "Charles Hoskinson",
        website |-> "https://cardano.org",
        description |-> "A research-driven blockchain platform focused on security and sustainability."]>> >>

agent_get_blockchain_info(chain_name) ==
    LET chain_key == strip(lower(chain_name))
    IN  IF DictHas(agent_blockchain_data, chain_key)
        THEN [status |-> "success", data |-> DictGet(agent_blockchain_data, chain_key)]
        ELSE [status |-> "not_found",
              message |-> <<"Blockchain '", chain_name, "' not found in database.">>,
              available_chains |-> DictKeys(agent_blockchain_data)]

agent_validations == <<
    <<K_ethereum, [pattern |-> ethereum_pattern,
        description |->
          "Ethereum addresses start with '0x' followed by 40 hexadecimal characters"]>>,
    <<K_bitcoin, [pattern |-> bitcoin_pattern,
        description |-> "Bitcoin addresses start with '1', '3', or 'bc1'"]>>,
    <<K_solana, [pattern |-> solana_pattern,
        description |-> "Solana addresses are base58 encoded, typically 32-44 characters"]>> >>

agent_validate_wallet_address(address, chain) ==
    LET chain_lower == lower(chain)
    IN  IF ~DictHas(agent_validations, chain_lower)
        THEN [status |-> "error",
              message |-> <<"Validation not supported for chain: ", chain>>,
              supported_chains |-> DictKeys(agent_validations)]
        ELSE LET pattern == DictGet(agent_validations, chain_lower).pattern
                 is_valid == re_match(pattern, address)
             IN  [status |-> "success",
                  address |-> address,
                  chain |-> chain,
                  is_valid |-> is_valid,
                  format_description |-> DictGet(agent_validations, chain_lower).description,
                  message |-> IF is_valid THEN "Address format is valid!"
                                          ELSE "Invalid address format."]

agent_gas_info == <<
    <<K_ethereum, [fee_name |-> "Gas", unit |-> "Gwei (1 Gwei = 0.000000001 ETH)",
        components |-> <<"Base Fee", "Priority Fee (Tip)">>,
        explanation |-> "Ethereum gas fees consist of: ...",
        typical_costs |-> [simple_transfer |-> "21,000 gas units",
                           token_transfer |-> "~65,000 gas units",
                           uniswap_swap |-> "~150,000 gas units",
                           nft_mint |-> "~100,000-200,000 gas units"]]>>,
    <<K_solana, [fee_name |-> "Transaction Fee",
        unit |-> "Lamports (1 SOL = 1,000,000,000 Lamports)",
        components |-> <<"Base Fee", "Priority Fee">>,
        explanation |-> "Solana has extremely low transaction fees: ...",
        typical_costs |-> [simple_transfer |-> "~0.000005 SOL",
                           token_transfer |-> "~0.00001 SOL",
                           nft_mint |-> "~0.01-0.02 SOL"]]>>,
    <<K_polygon, [fee_name |-> "Gas (MATIC)", unit |-> "Gwei (paid in MATIC)",
        components |-> <<"Base Fee", "Priority Fee">>,
        explanation |->
          "Polygon uses a similar gas model to Ethereum but with much lower costs: ...",
        typical_costs |-> [simple_transfer |-> "~$0.001-0.01",
                           token_transfer |-> "~$0.01-0.05",
                           swap |-> "~$0.05-0.20"]]>> >>

agent_explain_gas_fees(chain) ==
    LET chain_lower == lower(chain)
    IN  IF DictHas(agent_gas_info, chain_lower)
        THEN [status |-> "success", chain |-> chain,
              gas_info |-> DictGet(agent_gas_info, chain_lower)]
        ELSE [status |-> "not_found",
              message |-> <<"Gas fee information not available for ", chain>>,
              available_chains |-> DictKeys(agent_gas_info)]

agent_templates == <<
    <<K_erc20, [name |-> "ERC-20 Token", description |-> "Standard fungible token contract",
        code |-> "// SPDX-License-Identifier: MIT ... contract MyToken is ERC20, Ownable { ... }",
        explanation |-> "This creates a basic ERC-20 token with minting capability. Uses OpenZeppelin for security."]>>,
    <<K_erc721, [name |-> "ERC-721 NFT",
        description |-> "Standard non-fungible token (NFT) contract",
        code |-> "// SPDX-License-Identifier: MIT ... contract MyNFT is ERC721, ERC721URIStorage, Ownable { ... }",
        explanation |-> "A basic NFT contract with metadata URI storage. Each token is unique and can have its own metadata."]>>,
    <<K_simple_storage, [name |-> "Simple Storage",
        description |-> "A basic contract for learning Solidity",
        code |-> "// SPDX-License-Identifier: MIT ... contract SimpleStorage { ... }",
        explanation |-> "A beginner-friendly contract that stores a single number. Great for learning Solidity basics."]>> >>

agent_get_smart_contract_template(contract_type) ==
    LET contract_key == strip(lower(contract_type))
    IN  IF DictHas(agent_templates, contract_key)
        THEN [status |-> "success", template |-> DictGet(agent_templates, contract_key)]
        ELSE [status |-> "not_found",
              message |-> <<"Template '", contract_type, "' not found.">>,
              available_templates |-> DictKeys(agent_templates)]

agent_conversions == <<
    <<K_wei, F_1>>, <<K_gwei, F_1e9>>, <<K_eth, F_1e18>>, <<K_ether, F_1e18>>,
    <<K_satoshi, F_1>>, <<K_sat, F_1>>, <<K_btc, F_1e8>>, <<K_bitcoin, F_1e8>>,
    <<K_lamport, F_1>>, <<K_lamports, F_1>>, <<K_sol, F_1e9>>, <<K_solana, F_1e9>> >>

agent_eth_units == <<K_wei, K_gwei, K_eth, K_ether>>

agent_btc_units == <<K_satoshi, K_sat, K_btc, K_bitcoin>>

agent_sol_units == <<K_lamport, K_lamports, K_sol, K_solana>>

agent_get_chain(unit) ==
    IF InList(unit, agent_eth_units) THEN "ethereum"
    ELSE IF InList(unit, agent_btc_units) THEN "bitcoin"
    ELSE IF InList(unit, agent_sol_units) THEN "solana"
    ELSE "None"

agent_convert_crypto_units(amount, from_unit, to_unit) ==
    LET from_lower == lower(from_unit)
        to_lower == lower(to_unit)
    IN  IF ~DictHas(agent_conversions, from_lower) \/ ~DictHas(agent_conversions, to_lower)
        THEN [status |-> "error", message |-> "Invalid unit specified",
              available_units |-> DictKeys(agent_conversions)]
        ELSE LET from_chain == agent_get_chain(from_lower)
                 to_chain == agent_get_chain(to_lower)
             IN  IF from_chain # to_chain
                 THEN [status |-> "error",
                       message |-> <<"Cannot convert between different blockchains (",
                                     from_chain, " to ", to_chain, ")">>]
                 ELSE LET base_amount ==
                              float_mul(amount, DictGet(agent_conversions, from_lower))
                          converted ==
                              float_truediv(base_amount,
                                            DictGet(agent_conversions, to_lower))
                      IN  [status |-> "success",
                           input |-> [amount |-> amount, unit |-> from_unit],
                           output |-> [amount |-> converted, unit |-> to_unit],
                           blockchain |-> from_chain]

\* root_agent calls one of its tools; the call is recorded like a call of
\* the copy in src/app.py, with the module it belongs to
AgentGetBlockchainInfo ==
    /\ Idle
    /\ \E chain_name \in ChainNameInputs :
        /\ call' = [tool |-> "get_blockchain_info", module |-> "agent",
                    chain_name |-> chain_name]
        /\ result' = agent_get_blockchain_info(chain_name)
        /\ prev' = [status |-> "none"]
        /\ UNCHANGED <<frameVars, chatVars>>

AgentValidateWalletAddress ==
    /\ Idle
    /\ \E in \in ValidateInputs :
        /\ call' = [tool |-> "validate_wallet_address", module |-> "agent",
                    address |-> in[1], chain |-> in[2]]
        /\ result' = agent_validate_wallet_address(in[1], in[2])
        /\ prev' = [status |-> "none"]
        /\ UNCHANGED <<frameVars, chatVars>>

AgentExplainGasFees ==
    /\ Idle
    /\ \E chain \in ChainInputs :
        /\ call' = [tool |-> "explain_gas_fees", module |-> "agent", chain |-> chain]
        /\ result' = agent_explain_gas_fees(chain)
        /\ prev' = [status |-> "none"]
        /\ UNCHANGED <<frameVars, chatVars>>

AgentGetSmartContractTemplate ==
    /\ Idle
    /\ \E contract_type \in ContractTypeInputs :
        /\ call' = [tool |-> "get_smart_contract_template", module |-> "agent",
                    contract_type |-> contract_type]
        /\ result' = agent_get_smart_contract_template(contract_type)
        /\ prev' = [status |-> "none"]
        /\ UNCHANGED <<frameVars, chatVars>>

AgentConvertCryptoUnits ==
    /\ Idle
    /\ \E in \in ConvertInputs :
        /\ call' = [tool |-> "convert_crypto_units", module |-> "agent",
                    amount |-> in[1], from_unit |-> in[2], to_unit |-> in[3]]
        /\ result' = agent_convert_crypto_units(in[1], in[2], in[3])
        /\ prev' = [status |-> "none"]
        /\ UNCHANGED <<frameVars, chatVars>>

(***************************************************************************)
(* The specifications                                                      *)
(***************************************************************************)
Init ==
    /\ call = [tool |-> "none"]
    /\ result = [status |-> "none"]
    /\ prev = [status |-> "none"]
    /\ tasks = [t \in Tasks |-> NoTask]
    /\ locals = [t \in Tasks |-> NoLocals]
    /\ requests = [r \in Requests |-> NoRequest]
    /\ session_service = <<>>
    /\ uuids = 0

\* the envelope is handed to the caller (the JSON response, or the tool
\* result given to the agent); the functions keep nothing of the call
Respond ==
    /\ ~Idle
    /\ call' = [tool |-> "none"]
    /\ result' = [status |-> "none"]
    /\ prev' = [status |-> "none"]
    /\ UNCHANGED <<frameVars, chatVars>>

NextLookup ==
    \/ GetBlockchainInfo
    \/ Respond

SpecLookup == Init /\ [][NextLookup]_vars

NextValidate ==
    \/ ValidateWalletAddress
    \/ Respond

SpecValidate == Init /\ [][NextValidate]_vars

NextConvert ==
    \/ ConvertCryptoUnits
    \/ ConvertBack
    \/ Respond

SpecConvert == Init /\ [][NextConvert]_vars

Next ==
    \/ GetBlockchainInfo
    \/ ValidateWalletAddress
    \/ ExplainGasFees
    \/ GetSmartContractTemplate
    \/ ConvertCryptoUnits
    \/ ConvertBack
    \/ Respond

Spec == Init /\ [][Next]_vars

\* the tools called by several requests at once
NextTools ==
    \/ CallTool
    \/ Step
    \/ Finish

SpecTools == Init /\ [][NextTools]_vars

\* the tools called one call at a time, on every explored argument
NextToolsAlone ==
    \/ CallToolAlone
    \/ Step
    \/ Finish

SpecToolsAlone == Init /\ [][NextToolsAlone]_vars

\* the tools of root_agent (src/blockchain_assistant/agent.py)
NextAgent ==
    \/ AgentGetBlockchainInfo
    \/ AgentValidateWalletAddress
    \/ AgentExplainGasFees
    \/ AgentGetSmartContractTemplate
    \/ AgentConvertCryptoUnits
    \/ Respond

SpecAgent == Init /\ [][NextAgent]_vars

\* the chat endpoints, requests interleaving at the awaits
NextChat ==
    \/ ChatGetSession
    \/ ChatCreateSession
    \/ ChatRun
    \/ DeleteSession

SpecChat == Init /\ [][NextChat]_vars

\* the chat endpoints, each request answered before the next is received
NextChatSequential ==
    \/ NoneInFlight /\ ChatGetSession
    \/ ChatCreateSession
    \/ ChatRun
    \/ NoneInFlight /\ DeleteSession

SpecChatSequential == Init /\ [][NextChatSequential]_vars

(***************************************************************************)
(* Claims about validate_wallet_address                                    *)
(***************************************************************************)
Validated == call.tool = "validate_wallet_address"

ValidatedFor(key) == Validated /\ lower(call.chain) = key

HexChars ==
    {"0", "1", "2", "3", "4", "5", "6", "7", "8", "9",
     "a", "b", "c", "d", "e", "f", "A", "B", "C", "D", "E", "F"}

AsciiLetters == {LowerAlpha[i] : i \in 1..26} \cup {UpperAlpha[i] : i \in 1..26}

\* every character of s from position from on is in class
AllIn(s, from, class) == \A i \in from..Len(s) : s[i] \in class

\* s is one of the prefixes followed by lo..hi further characters of class
PrefixedRun(s, prefixes, class, lo, hi) ==
    \E p \in prefixes :
        /\ IsPrefix(p, s)
        /\ Len(s) - Len(p) \in lo..hi
        /\ AllIn(s, Len(p) + 1, class)

\* s without one trailing newline, if it has one
DropFinalNewline(s) ==
    IF Len(s) > 0 /\ s[Len(s)] = "\n" THEN SubSeq(s, 1, Len(s) - 1) ELSE s

\* C4 (as claimed): for chain "ethereum", is_valid is true exactly when the
\* whole address is "0x" followed by exactly 40 hexadecimal characters and
\* nothing more; a trailing newline makes it false.
C4_EthereumWholeString ==
    ValidatedFor(K_ethereum) =>
        /\ result.status = "success"
        /\ result.is_valid <=> PrefixedRun(call.address, {<<"0", "x">>}, HexChars, 40, 40)

\* C8: validate_wallet_address returns status "error" with the list of the
\* supported chains exactly when the (lower-cased) chain is not one of
\* ethereum, bitcoin, solana; for a supported chain and any address it returns
\* "success" with a boolean is_valid; an omitted chain means "ethereum".
C8_ErrorIffUnsupportedChain ==
    Validated =>
        /\ result.status \in {"error", "success"}
        /\ result.status = "error" <=> lower(call.chain) \notin {K_ethereum, K_bitcoin, K_solana}
        /\ result.status = "error" =>
              result.supported_chains = <<K_ethereum, K_bitcoin, K_solana>>
        /\ result.status = "success" => result.is_valid \in BOOLEAN
        /\ ~call.chain_given => call.chain = K_ethereum /\ result.status = "success"

\* C8 witness: both outcomes happen, an unsupported chain refused ...
C8_Witness ==
    /\ Validated
    /\ call.chain = K_dogecoin
    /\ result.status = "error"

\* C9 (as claimed): for chain "bitcoin", is_valid is true exactly when the
\* address is "1", "3" or "bc1" followed by 25 to 62 letters or digits none of
\* which is 0, O, I or l.
C9_BitcoinBase58AsClaimed ==
    ValidatedFor(K_bitcoin) =>
        (result.is_valid <=>
            PrefixedRun(call.address, {<<"1">>, <<"3">>, <<"b", "c", "1">>},
                        (AsciiLetters \cup Digits) \ {"0", "O", "I", "l"}, 25, 62))

\* C9 (amended): for chain "bitcoin", is_valid is true exactly when the
\* address, without one trailing newline if it has one, is "1", "3" or "bc1"
\* followed by 25 to 62 ASCII letters or digits other than the capitals I
\* and O (0 and l are accepted).
C9_BitcoinPattern ==
    ValidatedFor(K_bitcoin) =>
        /\ result.status = "success"
        /\ result.is_valid <=>
            PrefixedRun(DropFinalNewline(call.address),
                        {<<"1">>, <<"3">>, <<"b", "c", "1">>},
                        (AsciiLetters \cup Digits) \ {"I", "O"}, 25, 62)

\* C9 witness: a bech32 address holding 0 and l is reported valid
C9_Witness ==
    /\ ValidatedFor(K_bitcoin)
    /\ call.address = SampleBech32Address
    /\ result.is_valid

Base58 == (AsciiLetters \cup Digits) \ {"0", "O", "I", "l"}

\* C10 (as claimed): for chain "solana", is_valid is true exactly when the
\* whole address is 32 to 44 base58 characters, whatever other chain's
\* format the address has.
C10_SolanaWholeString ==
    ValidatedFor(K_solana) =>
        /\ result.status = "success"
        /\ result.is_valid <=> PrefixedRun(call.address, {<<>>}, Base58, 32, 44)

(***************************************************************************)
(* Claims about convert_crypto_units                                       *)
(***************************************************************************)
Converted == call.tool = "convert_crypto_units"

ClaimedEthereumUnits == {K_wei, K_gwei, K_eth, K_ether}

ClaimedBitcoinUnits == {K_satoshi, K_sat, K_btc, K_bitcoin}

ClaimedSolanaUnits == {K_lamport, K_lamports, K_sol, K_solana}

ClaimedUnits == ClaimedEthereumUnits \cup ClaimedBitcoinUnits \cup ClaimedSolanaUnits

ClaimedFamily(unit) ==
    IF unit \in ClaimedEthereumUnits THEN "ethereum"
    ELSE IF unit \in ClaimedBitcoinUnits THEN "bitcoin"
    ELSE "solana"

\* wei=1, gwei=1e9, eth=ether=1e18, satoshi=sat=1, btc=bitcoin=1e8,
\* lamport=lamports=1, sol=solana=1e9
ClaimedFactor(unit) ==
    IF unit \in {K_wei, K_satoshi, K_sat, K_lamport, K_lamports} THEN FromInt(1)
    ELSE IF unit \in {K_gwei, K_sol, K_solana} THEN FromInt(1000000000)
    ELSE IF unit \in {K_btc, K_bitcoin} THEN FromInt(100000000)
    ELSE float_mul(FromInt(1000000000), FromInt(1000000000))

BothUnitsKnown == lower(call.from_unit) \in ClaimedUnits /\ lower(call.to_unit) \in ClaimedUnits

SameFamily == ClaimedFamily(lower(call.from_unit)) = ClaimedFamily(lower(call.to_unit))

\* C1: for every amount and every pair of known units (after lower-casing)
\* of different chain families, convert_crypto_units returns status "error"
\* with a message naming both families, and no "output" amount.
C1_CrossFamilyIsError ==
    (Converted /\ BothUnitsKnown /\ ~SameFamily) =>
        /\ result.status = "error"
        /\ InList(ClaimedFamily(lower(call.from_unit)), result.message)
        /\ InList(ClaimedFamily(lower(call.to_unit)), result.message)
        /\ "output" \notin DOMAIN result

\* C1 witness: eth -> btc is refused
C1_Witness ==
    /\ Converted
    /\ call.from_unit = K_eth
    /\ call.to_unit = K_btc
    /\ call.amount = F_max
    /\ result.status = "error"

\* C2: for every amount and every pair of known units of one chain family,
\* convert_crypto_units returns status "success" with the output amount
\* amount * factor(from_unit) / factor(to_unit) (in float arithmetic) for the
\* factors of the claim; convert(1, "eth", "gwei") gives 1e9 and
\* convert(21000, "gwei", "eth") gives 0.000021.
C2_SameFamilyConversion ==
    (Converted /\ BothUnitsKnown /\ SameFamily) =>
        /\ result.status = "success"
        /\ result.output.amount =
              float_truediv(float_mul(call.amount, ClaimedFactor(lower(call.from_unit))),
                            ClaimedFactor(lower(call.to_unit)))
        /\ (call.amount = FromInt(1) /\ call.from_unit = K_eth /\ call.to_unit = K_gwei)
              => result.output.amount = FromInt(1000000000)
        /\ (call.amount = F_21000 /\ call.from_unit = K_gwei /\ call.to_unit = K_eth)
              => result.output.amount = F_0_000021

\* C2 witness: convert(21000, "gwei", "eth") has returned 0.000021
C2_Witness ==
    /\ Converted
    /\ call.amount = F_21000
    /\ call.from_unit = K_gwei
    /\ call.to_unit = K_eth
    /\ result.status = "success"
    /\ result.output.amount = F_0_000021

\* a finite float with a full 53-bit significand (neither zero nor subnormal)
Normal(x) == x.kind = "fin" /\ BBitLen(x.m) = MantBits

BDist(x, y) == IF BLess(x, y) THEN BSub(y, x) ELSE BSub(x, y)

\* |a - b| <= k * 2^(a.e), k units in the last place of a, for finite a, b
WithinUlps(a, b, k) ==
    /\ a.sign = b.sign
    /\ \/ b.e = a.e /\ ~BLess(BFromInt(k), BDist(a.m, b.m))
       \/ b.e = a.e + 1 /\ ~BLess(BFromInt(k), BDist(a.m, BShl(b.m, 1)))
       \/ b.e = a.e - 1 /\ ~BLess(BFromInt(2 * k), BDist(BShl(a.m, 1), b.m))

\* a float below 2^-947 in magnitude, and its magnitude in units of 2^-1074
Low(x) == x.kind = "zero" \/ (x.kind = "fin" /\ x.e <= -1000)

LowUnits(x) == IF x.kind = "zero" THEN <<>> ELSE BShl(x.m, x.e - MinExp)

\* |a - b| < 2^-1000: a difference no larger float can have
TinyDifference(a, b) ==
    /\ Low(a) /\ Low(b)
    /\ a.sign = b.sign \/ a.kind = "zero" \/ b.kind = "zero"
    /\ BBitLen(BDist(LowUnits(a), LowUnits(b))) <= 74

\* b is a again, read generously: the same float, a finite float within 4
\* units in the last place of a, or one less than 2^-1000 away from a
Returned(a, b) ==
    \/ b = a
    \/ a.kind = "fin" /\ b.kind = "fin" /\ WithinUlps(a, b, 4)
    \/ TinyDifference(a, b)

RoundTripped == prev.status = "converted"

\* C3 (as claimed): for any amount A and any two units of one family,
\* converting A from U1 to U2 and the output back from U2 to U1 returns A
\* within the tolerance of the arithmetic.
C3_RoundTripAnyAmount ==
    RoundTripped =>
        /\ result.status = "success"
        /\ Returned(prev.call.amount, result.output.amount)

\* every product and quotient of the round trip of the last two calls is a
\* normal float: none overflowed to infinity or fell below 2^-1022
NoOverflowNoUnderflow ==
    /\ Normal(prev.call.amount)
    /\ Normal(float_mul(prev.call.amount, ClaimedFactor(lower(prev.call.from_unit))))
    /\ Normal(prev.result.output.amount)
    /\ Normal(float_mul(prev.result.output.amount, ClaimedFactor(lower(prev.call.to_unit))))
    /\ Normal(result.output.amount)

\* C3 (amended): the round trip U1 -> U2 -> U1 of one family succeeds; it
\* returns A to within 4 units in the last place whenever A and every
\* product and quotient on the way are normal floats, and it returns a zero,
\* an infinite or a NaN amount as it is.
C3_RoundTripInRange ==
    RoundTripped =>
        /\ result.status = "success"
        /\ call.from_unit = prev.call.to_unit /\ call.to_unit = prev.call.from_unit
        /\ NoOverflowNoUnderflow =>
              /\ result.output.amount.kind = "fin"
              /\ WithinUlps(prev.call.amount, result.output.amount, 4)
        /\ prev.call.amount.kind # "fin" => result.output.amount = prev.call.amount

\* C3 witness: 0.1 went from eth to wei and back, and came back
C3_Witness ==
    /\ RoundTripped
    /\ prev.call.amount = F_0_1
    /\ prev.call.from_unit = K_eth
    /\ prev.call.to_unit = K_wei
    /\ NoOverflowNoUnderflow
    /\ Returned(F_0_1, result.output.amount)

\* C7: whenever from_unit or to_unit (lower-cased) is no known unit,
\* convert_crypto_units returns status "error" with the list of all valid
\* units; this comes before the family check, so an unknown unit with a
\* known one gives the invalid-unit error, not the cross-family one.
C7_UnknownUnitErrorFirst ==
    (Converted /\ ~BothUnitsKnown) =>
        /\ result.status = "error"
        /\ result.message = "Invalid unit"
        /\ "available_units" \in DOMAIN result
        /\ {result.available_units[i] : i \in 1..Len(result.available_units)} = ClaimedUnits
        /\ Len(result.available_units) = Cardinality(ClaimedUnits)

\* C7 witness: an unknown unit with a known one
C7_Witness ==
    /\ Converted
    /\ call.from_unit = K_doge
    /\ call.to_unit = K_eth
    /\ result.status = "error"
    /\ "available_units" \in DOMAIN result

(***************************************************************************)
(* Claims about the table lookups                                          *)
(***************************************************************************)
LookedUp == call.tool = "get_blockchain_info"

ClaimedChains == {K_ethereum, K_bitcoin, K_solana, K_polygon, K_avalanche, K_cardano}

\* " ETHEREUM "
SpacedCapitalEthereum == <<" ", "E", "T", "H", "E", "R", "E", "U", "M", " ">>

\* C6: get_blockchain_info lower-cases and trims its argument; it returns
\* "success" with the full record exactly when that key is a known chain,
\* and otherwise "not_found" with a non-empty available_chains holding every
\* known chain key. " ETHEREUM " gives what "ethereum" gives.
C6_ChainLookup ==
    LookedUp =>
        LET key == strip(lower(call.chain_name))
        IN  /\ result.status \in {"success", "not_found"}
            /\ result.status = "success" <=> key \in ClaimedChains
            /\ result.status = "success" => result.data = DictGet(blockchain_data, key)
            /\ result.status = "not_found" =>
                  /\ result.available_chains # <<>>
                  /\ \A k \in ClaimedChains : InList(k, result.available_chains)
            /\ call.chain_name = SpacedCapitalEthereum =>
                  /\ result.status = "success"
                  /\ result.data.symbol = "ETH"

\* C6 witness: " ETHEREUM " was looked up and found
C6_Witness ==
    /\ LookedUp
    /\ call.chain_name = SpacedCapitalEthereum
    /\ result.status = "success"

\* the key an argument stands for once lower-cased and trimmed
Normalized(s) == strip(lower(s))

\* C5 (as claimed): in each of the five operations a key argument that
\* differs from a known key only by letter case or by whitespace around it
\* gives the status and payload the known key gives.
C5_KeysFoldedAndTrimmed ==
    /\ (LookedUp /\ DictHas(blockchain_data, Normalized(call.chain_name))) =>
          result = get_blockchain_info(Normalized(call.chain_name))
    /\ (Validated /\ DictHas(validations, Normalized(call.chain))) =>
          /\ result.status = "success"
          /\ result.is_valid =
                validate_wallet_address(call.address, Normalized(call.chain)).is_valid
    /\ (call.tool = "explain_gas_fees" /\ DictHas(gas_info, Normalized(call.chain))) =>
          /\ result.status = "success"
          /\ result.gas_info = DictGet(gas_info, Normalized(call.chain))
    /\ (call.tool = "get_smart_contract_template"
            /\ DictHas(templates, Normalized(call.contract_type))) =>
          result = get_smart_contract_template(Normalized(call.contract_type))
    /\ (Converted /\ DictHas(conversions, Normalized(call.from_unit))
            /\ DictHas(conversions, Normalized(call.to_unit))) =>
          LET plain == convert_crypto_units(call.amount, Normalized(call.from_unit),
                                            Normalized(call.to_unit))
          IN  /\ result.status = plain.status
              /\ result.status = "success" => result.output.amount = plain.output.amount

(***************************************************************************)
(* Claims about the envelopes, about calls in flight together and about    *)
(* faults                                                                  *)
(***************************************************************************)
\* the envelope the function of src/app.py returns for the call c when it
\* is the only call ever made
ToolResult(c) ==
    CASE c.tool = "get_blockchain_info" -> get_blockchain_info(c.chain_name)
      [] c.tool = "validate_wallet_address" -> validate_wallet_address(c.address, c.chain)
      [] c.tool = "explain_gas_fees" -> explain_gas_fees(c.chain)
      [] c.tool = "get_smart_contract_template" ->
            get_smart_contract_template(c.contract_type)
      [] c.tool = "convert_crypto_units" ->
            convert_crypto_units(c.amount, c.from_unit, c.to_unit)

Ended(t) == tasks[t].pc \in {"returned", "raised"}

\* C11: the tools are pure and stateless.  However the statements of the
\* calls in flight interleave, a call that ends has returned the envelope
\* its own arguments determine (the one it returns as the only call ever
\* made), and once no call is in flight nothing of the calls is left: the
\* state is the initial one again.
C11_CallsArePure ==
    /\ \A t \in Tasks : Ended(t) => tasks[t].out = ToolResult(tasks[t].call)
    /\ (\A t \in Tasks : tasks[t].pc = "idle") => Init

\* a call has returned its envelope while another call of the same tool,
\* with another argument, is between two statements
C11_Witness ==
    /\ tasks[1].pc = "returned"
    /\ tasks[1].call.tool = "get_blockchain_info"
    /\ tasks[1].out.status = "success"
    /\ tasks[2].pc = "L93"
    /\ tasks[2].call.chain_name = K_dogecoin

\* the list of valid keys or options an envelope carries (empty when none)
ValidKeys(r) ==
    IF "available_chains" \in DOMAIN r THEN r.available_chains
    ELSE IF "supported_chains" \in DOMAIN r THEN r.supported_chains
    ELSE IF "available_templates" \in DOMAIN r THEN r.available_templates
    ELSE IF "available_units" \in DOMAIN r THEN r.available_units
    ELSE <<>>

\* the call names a chain the validator does not support, or a unit the
\* converter does not know
UnsupportedUnitOrChain ==
    \/ /\ call.tool = "validate_wallet_address"
       /\ lower(call.chain) \notin {K_ethereum, K_bitcoin, K_solana}
    \/ /\ call.tool = "convert_crypto_units"
       /\ ~BothUnitsKnown

\* C12: every result is one envelope variant.  The status is "success",
\* "not_found" or "error"; a "not_found" result carries a message and a
\* non-empty list of valid keys; an "error" for an unsupported unit or chain
\* carries a message and the list of valid options.
C12_EnvelopeVariants ==
    ~Idle =>
        /\ result.status \in {"success", "not_found", "error"}
        /\ result.status = "not_found" =>
              "message" \in DOMAIN result /\ ValidKeys(result) # <<>>
        /\ UnsupportedUnitOrChain =>
              /\ result.status = "error"
              /\ "message" \in DOMAIN result
              /\ ValidKeys(result) # <<>>

\* the gas fees of a chain that has no entry were asked for
C12_Witness ==
    /\ call.tool = "explain_gas_fees"
    /\ lower(call.chain) = K_bitcoin
    /\ result.status = "not_found"

IsChat(r) == requests[r].endpoint = "chat"

\* C14: a failure of the agent runtime in create_session or in the run ends
\* the /chat request with HTTP 500 whose detail carries the failure
\* message; no ChatResponse is returned, and no runtime call is made twice
\* by one request.
C14_RuntimeFailureIs500 ==
    \A r \in Requests :
        IsChat(r) =>
            /\ requests[r].create_calls <= 1
            /\ requests[r].run_calls <= 1
            /\ requests[r].failure # "none" =>
                  /\ requests[r].pc = "done"
                  /\ requests[r].response.kind = "HTTPException"
                  /\ requests[r].response.status_code = 500
                  /\ requests[r].response.detail =
                        <<"Error processing request: ", requests[r].failure>>

\* the run of a request failed after its session was created, and another
\* request's create_session failed
C14_Witness ==
    /\ requests[1].failure = "run_async failed"
    /\ requests[1].create_calls = 1
    /\ requests[1].response.kind = "HTTPException"
    /\ requests[2].failure = "create_session failed"
    /\ requests[2].run_calls = 0

\* C15: DELETE /session/{session_id} deletes the session: when
\* delete_session has answered "deleted", the session service holds no
\* session of that id (so that a later /chat with the id starts anew).
C15_DeleteRemovesSession ==
    [][\A r \in Requests :
          (requests[r].pc = "new" /\ requests'[r].endpoint = "delete"
             /\ requests'[r].response.status = "deleted")
          => SessionKey(requests'[r].session_id) \notin DOMAIN session_service']_vars

\* create_session was called by the request and did not fail
Created(r) == requests[r].create_calls > 0 /\ requests[r].failure # "create_session failed"

Generated(r) == ~requests[r].session_id_given \/ requests[r].request_session_id = <<>>

\* C16: with the /chat requests handled one after another, a request with a
\* non-empty session_id is answered with that id; a session is created at
\* most once for an id, and a request whose id has a session reuses it
\* without calling create_session; a request without a session_id (or with
\* an empty one) gets an id no other request has.
C16_SessionCreatedOnce ==
    \A r \in Requests :
        IsChat(r) =>
            /\ (requests[r].response.kind = "ChatResponse" /\ ~Generated(r)) =>
                  requests[r].response.session_id = requests[r].request_session_id
            /\ requests[r].existed => requests[r].create_calls = 0
            /\ \A q \in Requests :
                  (q # r /\ IsChat(q) /\ requests[q].session_id = requests[r].session_id)
                  => ~(Created(q) /\ Created(r))
            /\ Generated(r) =>
                  /\ ~requests[r].existed
                  /\ \A q \in Requests :
                        (q # r /\ requests[q].endpoint # "none")
                        => requests[q].session_id # requests[r].session_id

\* get_session answered None to the request because no session was stored
FoundNone(r) == IsChat(r) /\ ~requests[r].existed /\ ~requests[r].get_session_raised

\* C17: two /chat requests with the same session_id that both find no
\* session (they interleave between get_session and create_session) do not
\* both call create_session, and the session of one is not replaced by the
\* other's.
C17_NoDuplicateCreation ==
    \A r, q \in Requests :
        (r # q /\ FoundNone(r) /\ FoundNone(q)
           /\ requests[r].session_id = requests[q].session_id)
        => ~(requests[r].create_calls > 0 /\ requests[q].create_calls > 0)

(***************************************************************************)
(* The two copies of the tools                                             *)
(***************************************************************************)
\* C18: the copy of a tool in src/blockchain_assistant/agent.py returns,
\* for every input, the status and the list of valid keys that the copy in
\* src/app.py returns.
C18_CopiesAgree ==
    ~Idle =>
        /\ result.status = ToolResult(call).status
        /\ ValidKeys(result) = ValidKeys(ToolResult(call))

=============================================================================
